---- MODULE Spec2Model ----
(***************************************************************************)
(* Model of retrovibez' figure generation (src/core/figure_generator.py):  *)
(* the per-track unit process_single_track and the orchestrator            *)
(* generate_all_figures, which fans the units out over a                   *)
(* ProcessPoolExecutor, collects their results with as_completed and       *)
(* writes summary.json.                                                    *)
(***************************************************************************)
EXTENDS Integers, Sequences, FiniteSets, TLC

VARIABLES
    autoDetect,     \* tracks argument is None (line 264)
    stray,          \* results_dir holds a directory "track_old" (non-numeric suffix)
    tracks,         \* the list of track numbers (argument, or discovered)
    pc,             \* position of generate_all_figures
    cause,          \* where generate_all_figures raised, "none" if it has not
    figures_dir,    \* TRUE when the output location exists
    units,          \* one record per list entry: the submitted work item and its future
    broken,         \* ProcessPoolExecutor._broken
    results,        \* the outcome sequence (line 281)
    success,        \* line 299
    total_revs,     \* line 300
    summary,        \* content of figures_dir/summary.json
    summaryWrites,  \* number of times summary.json was written, and by whom
    prior,          \* content of figures_dir/summary.json before the run
    call            \* one call of a loader or renderer: its arguments and what it returned

vars == <<autoDetect, stray, tracks, pc, cause, figures_dir, units, broken,
          results, success, total_revs, summary, summaryWrites, prior, call>>

----------------------------------------------------------------------------
(* Bounds of the model *)

\* explicit track lists up to this length are run in every order; longer
\* ones in ascending order only
MaxPermLen == 2

\* longest elapsed_time series (N) a renderer is called with
MaxN == 2

\* longest position series (M) plot_trajectory is called with
MaxM == 3

----------------------------------------------------------------------------
(* The results location: five tracks, one per way a unit can end.          *)
(*   1  directory, track_data.h5 with two reversals, renders               *)
(*   2  no directory                                                       *)
(*   3  directory without track_data.h5                                    *)
(*   4  directory and data, some step of the unit raises                   *)
(*   5  directory and data, the worker process dies during the unit        *)

TrackIds == {1, 2, 3, 4, 5}

DirExists(t) == t # 2

H5Exists(t) == t \in {1, 4, 5}

NumReversals(t) == CASE t = 1 -> 2
                     [] t = 4 -> 1
                     [] t = 5 -> 1
                     [] OTHER -> 0

Fault(t) == CASE t = 4 -> "raise"
              [] t = 5 -> "crash"
              [] OTHER -> "none"

----------------------------------------------------------------------------
(* Helpers *)

Min(a, b) == IF a < b THEN a ELSE b

Range(s) == {s[i] : i \in DOMAIN s}

RECURSIVE SumSeq(_)
SumSeq(s) == IF s = <<>> THEN 0 ELSE Head(s) + SumSeq(Tail(s))

RECURSIVE SortAsc(_)
\* sorted(...) of a set of integers, ascending
SortAsc(S) ==
    IF S = {} THEN <<>>
    ELSE LET m == CHOOSE x \in S : \A y \in S : x <= y
         IN  <<m>> \o SortAsc(S \ {m})

\* sequences over S without repetition, of length at most n
InjSeqs(S, n) ==
    {s \in UNION {[1..k -> S] : k \in 0..n} :
        \A i, j \in DOMAIN s : i # j => s[i] # s[j]}

----------------------------------------------------------------------------
(* The unit of work: load_track_data and process_single_track.             *)
(* A step of a unit is <<name, index>>; the index numbers the close-ups.   *)

LoadStep == <<"load", 0>>

NoFail == <<"none", 0>>

\* the reversal windows stored in track t's track_data.h5, in key order
Reversals(t) == [r \in 1..NumReversals(t) |-> [start_idx |-> 10 * r, end_idx |-> 10 * r + 5]]

\* str(e) of the exception a step raises
ExcMessage(step) == CASE step[1] = "load"        -> "track_data.h5 unreadable"
                      [] step[1] = "mkdir"       -> "mkdir failed"
                      [] step[1] = "dot_product" -> "plot_dot_product failed"
                      [] step[1] = "trajectory"  -> "plot_trajectory failed"
                      [] OTHER                   -> "plot_reversal_closeup failed"

\* load_track_data: raises FileNotFoundError without track_data.h5, raises
\* when the file cannot be read (failAt), else returns the record.
load_track_data(t, failAt) ==
    IF ~H5Exists(t)
    THEN [raised |-> TRUE, msg |-> "No track_data.h5 found"]
    ELSE IF failAt = LoadStep
    THEN [raised |-> TRUE, msg |-> ExcMessage(LoadStep)]
    ELSE [raised |-> FALSE, msg |-> "",
          data |-> [track_num |-> t, reversals |-> Reversals(t)]]

\* mutant: the close-up loop stops one reversal short
RenderSteps_OneShort(n) ==
    <<<<"mkdir", 0>>, <<"dot_product", 0>>, <<"trajectory", 0>>>>
        \o [r \in 1..(n - 1) |-> <<"closeup", r>>]

\* lines 230-239: mkdir, the two main figures, one close-up per reversal
RenderSteps(n) ==
    <<<<"mkdir", 0>>, <<"dot_product", 0>>, <<"trajectory", 0>>>>
        \o [r \in 1..n |-> <<"closeup", r>>]

\* every step of a unit for track t that reaches the loader
AllSteps(t) == <<LoadStep>> \o RenderSteps(NumReversals(t))

\* index of the step that raises, 0 if none does
FirstFail(steps, failAt) ==
    IF \E k \in DOMAIN steps : steps[k] = failAt
    THEN CHOOSE k \in DOMAIN steps : steps[k] = failAt
    ELSE 0

\* line 226
NotFoundOutcome(track_num) ==
    [track_num |-> track_num, status |-> "not_found", reversals |-> 0]

\* lines 241-245
SuccessOutcome(track_num, data) ==
    [track_num |-> track_num, status |-> "success", reversals |-> Len(data.reversals)]

\* mutant: the exception is not caught
ExceptClause_Propagates(track_num, msg, invoked, completed) ==
    [raised |-> TRUE,
     value |-> [track_num |-> track_num, status |-> "error", error |-> msg, reversals |-> 0],
     invoked |-> invoked, completed |-> completed]

\* lines 246-247: except Exception as e
ExceptClause(track_num, msg, invoked, completed) ==
    [raised |-> FALSE,
     value |-> [track_num |-> track_num, status |-> "error", error |-> msg, reversals |-> 0],
     invoked |-> invoked, completed |-> completed]

\* mutant: the directory test is left out
TrackDirMissing_Skipped(track_num) == FALSE

\* the directory test of line 225
TrackDirMissing(track_num) == ~DirExists(track_num)

\* process_single_track((track_num, results_dir, figures_dir)) when the step
\* failAt raises: what it returns (or raises), the steps it invoked and the
\* steps that completed.
process_single_track(track_num, failAt) ==
    IF TrackDirMissing(track_num)
    THEN [raised |-> FALSE, value |-> NotFoundOutcome(track_num),
          invoked |-> <<>>, completed |-> <<>>]
    ELSE LET ld == load_track_data(track_num, failAt)
         IN  IF ld.raised
             THEN ExceptClause(track_num, ld.msg, <<LoadStep>>, <<>>)
             ELSE LET steps == RenderSteps(Len(ld.data.reversals))
                      k == FirstFail(steps, failAt)
                  IN  IF k = 0
                      THEN [raised |-> FALSE,
                            value |-> SuccessOutcome(track_num, ld.data),
                            invoked |-> <<LoadStep>> \o steps,
                            completed |-> <<LoadStep>> \o steps]
                      ELSE ExceptClause(track_num, ExcMessage(steps[k]),
                                        <<LoadStep>> \o SubSeq(steps, 1, k),
                                        <<LoadStep>> \o SubSeq(steps, 1, k - 1))

\* the steps the environment can make raise in a unit for track t
FailChoices(t) ==
    IF Fault(t) = "raise" /\ DirExists(t) /\ H5Exists(t)
    THEN Range(AllSteps(t))
    ELSE {NoFail}

----------------------------------------------------------------------------
(* The orchestrator: generate_all_figures *)

\* line 282: the 4 of min(4, len(tracks))
PoolCap == 4

\* mutant: one worker per track, no cap
max_workers_Uncapped == Len(tracks)

max_workers == Min(PoolCap, Len(tracks))

\* results_dir.iterdir(): the track directories, a file "tracks.csv", a
\* directory "logs" and, when stray, a directory "track_old"
ResultsEntries ==
    {[starts |-> TRUE, is_dir |-> TRUE, numeric |-> TRUE, num |-> t] :
        t \in {x \in TrackIds : DirExists(x)}}
    \cup {[starts |-> TRUE, is_dir |-> FALSE, numeric |-> FALSE, num |-> 0],
          [starts |-> FALSE, is_dir |-> TRUE, numeric |-> FALSE, num |-> 0]}
    \cup (IF stray
          THEN {[starts |-> TRUE, is_dir |-> TRUE, numeric |-> FALSE, num |-> 0]}
          ELSE {})

\* line 268: d.is_dir() and d.name.startswith('track')
TrackDirEntries == {e \in ResultsEntries : e.is_dir /\ e.starts}

Unsubmitted ==
    [st |-> "unsubmitted", fut |-> [kind |-> "none"], invoked |-> <<>>, completed |-> <<>>]

BrokenProcessPool == [kind |-> "exception", exc |-> "BrokenProcessPool"]

Running == {u \in DOMAIN units : units[u].st = "running"}

Queued == {u \in DOMAIN units : units[u].st = "queued"}

\* no summary.json in figures_dir
NoSummary == [present |-> FALSE]

\* the summary.json an earlier run over the same results location left behind
StaleSummary ==
    [present |-> TRUE,
     tracks |-> <<[track_num |-> 1, status |-> "success", reversals |-> 1]>>,
     total_reversals |-> 1]

\* no loader or renderer call is being looked at
NoCall == [fn |-> "none"]

\* the explicit track lists the model runs
TrackLists ==
    InjSeqs(TrackIds, MaxPermLen)
        \cup {SortAsc(S) : S \in SUBSET TrackIds}
        \cup {<<t, t>> : t \in TrackIds}

Init ==
    /\ autoDetect \in BOOLEAN
    /\ stray \in BOOLEAN
    /\ tracks \in TrackLists
    /\ autoDetect => tracks = <<>>
    /\ ~autoDetect => ~stray
    /\ pc = "start"
    /\ cause = "none"
    /\ figures_dir = FALSE
    /\ units = <<>>
    /\ broken = FALSE
    /\ results = <<>>
    /\ success = 0
    /\ total_revs = 0
    /\ prior \in (IF autoDetect /\ ~stray THEN {NoSummary, StaleSummary} ELSE {NoSummary})
    /\ summary = prior
    /\ summaryWrites = 0
    /\ call = NoCall

\* line 261: figures_dir.mkdir(parents=True, exist_ok=True), which may raise
MakeFiguresDir ==
    /\ pc = "start"
    /\ \E ok \in BOOLEAN :
        IF ok
        THEN /\ figures_dir' = TRUE
             /\ pc' = IF autoDetect THEN "discover" ELSE "check"
             /\ cause' = cause
        ELSE /\ pc' = "raised"
             /\ cause' = "mkdir"
             /\ figures_dir' = figures_dir
    /\ UNCHANGED <<prior, call, autoDetect, stray, tracks, units, broken, results, success,
                   total_revs, summary, summaryWrites>>

\* lines 264-270: int(d.name.replace('track', '')) raises ValueError on a
\* directory whose name has no integer after "track"
Discover ==
    /\ pc = "discover"
    /\ IF \E e \in TrackDirEntries : ~e.numeric
       THEN /\ pc' = "raised"
            /\ cause' = "discover"
            /\ tracks' = tracks
       ELSE /\ tracks' = SortAsc({e.num : e \in TrackDirEntries})
            /\ pc' = "check"
            /\ cause' = cause
    /\ UNCHANGED <<prior, call, autoDetect, stray, figures_dir, units, broken, results, success,
                   total_revs, summary, summaryWrites>>

\* lines 272-274: no tracks, return
NoTracks ==
    /\ pc = "check"
    /\ tracks = <<>>
    /\ pc' = "done"
    /\ UNCHANGED <<prior, call, autoDetect, stray, tracks, cause, figures_dir, units, broken,
                   results, success, total_revs, summary, summaryWrites>>

\* lines 279-284: the argument list and the executor
OpenPool ==
    /\ pc = "check"
    /\ tracks # <<>>
    /\ units' = [u \in DOMAIN tracks |-> Unsubmitted]
    /\ pc' = "submit"
    /\ UNCHANGED <<prior, call, autoDetect, stray, tracks, cause, figures_dir, broken, results,
                   success, total_revs, summary, summaryWrites>>

\* line 285: executor.submit for the next list entry; submit raises
\* BrokenProcessPool once the pool is broken
Submit ==
    /\ pc = "submit"
    /\ LET n == CHOOSE u \in DOMAIN units :
                    /\ units[u].st = "unsubmitted"
                    /\ \A v \in DOMAIN units : v < u => units[v].st # "unsubmitted"
       IN  IF broken
           THEN /\ pc' = "raised"
                /\ cause' = "submit"
                /\ units' = units
           ELSE /\ units' = [units EXCEPT ![n].st = "queued"]
                /\ pc' = IF n = Len(tracks) THEN "collect" ELSE "submit"
                /\ cause' = cause
    /\ UNCHANGED <<prior, call, autoDetect, stray, tracks, figures_dir, broken, results, success,
                   total_revs, summary, summaryWrites>>

\* a free worker process takes the oldest queued work item
CanStart(u) ==
    /\ units[u].st = "queued"
    /\ \A v \in Queued : u <= v
    /\ Cardinality(Running) < max_workers

Start(u) ==
    /\ ~broken
    /\ CanStart(u)
    /\ units' = [units EXCEPT ![u].st = "running"]
    /\ UNCHANGED <<prior, call, autoDetect, stray, tracks, pc, cause, figures_dir, broken, results,
                   success, total_revs, summary, summaryWrites>>

\* the worker runs process_single_track to its end and sends the result back
Finish(u) ==
    /\ units[u].st = "running"
    /\ Fault(tracks[u]) # "crash"
    /\ \E failAt \in FailChoices(tracks[u]) :
        LET r == process_single_track(tracks[u], failAt)
        IN  units' = [units EXCEPT ![u] =
                [st |-> "finished",
                 fut |-> IF r.raised
                         THEN [kind |-> "exception", exc |-> "Exception"]
                         ELSE [kind |-> "result", value |-> r.value],
                 invoked |-> r.invoked,
                 completed |-> r.completed]]
    /\ UNCHANGED <<prior, call, autoDetect, stray, tracks, pc, cause, figures_dir, broken, results,
                   success, total_revs, summary, summaryWrites>>

\* the worker process dies at step k of the unit: the executor marks the pool
\* broken, fails every pending future with BrokenProcessPool and terminates
\* the other workers. A unit's steps take effect when it finishes, so a
\* terminated unit has none recorded.
Crash(u) ==
    /\ units[u].st = "running"
    /\ Fault(tracks[u]) = "crash"
    /\ \E k \in DOMAIN AllSteps(tracks[u]) :
        units' = [v \in DOMAIN units |->
            IF v = u
            THEN [st |-> "finished", fut |-> BrokenProcessPool,
                  invoked |-> SubSeq(AllSteps(tracks[u]), 1, k),
                  completed |-> SubSeq(AllSteps(tracks[u]), 1, k - 1)]
            ELSE IF units[v].st \in {"queued", "running"}
            THEN [units[v] EXCEPT !.st = "finished", !.fut = BrokenProcessPool]
            ELSE units[v]]
    /\ broken' = TRUE
    /\ UNCHANGED <<prior, call, autoDetect, stray, tracks, pc, cause, figures_dir, results, success,
                   total_revs, summary, summaryWrites>>

\* mutant: a pool-level failure is reported like a unit's own error
ExceptionOutcome_AsError(track_num) ==
    [track_num |-> track_num, status |-> "error", reversals |-> 0]

\* lines 294-296: except Exception as e
ExceptionOutcome(track_num) ==
    [track_num |-> track_num, status |-> "exception", reversals |-> 0]

\* mutant: no try/except around future.result()
CollectOutcome_NoExcept(track_num, fut) ==
    IF fut.kind = "result"
    THEN [raised |-> FALSE, appended |-> <<fut.value>>]
    ELSE [raised |-> TRUE, appended |-> <<>>]

\* lines 287-296: future.result() and what is appended to results for it
CollectOutcome(track_num, fut) ==
    IF fut.kind = "result"
    THEN [raised |-> FALSE, appended |-> <<fut.value>>]
    ELSE [raised |-> FALSE, appended |-> <<ExceptionOutcome(track_num)>>]

\* line 286: as_completed yields a finished future
Collect(u) ==
    /\ pc = "collect"
    /\ units[u].st = "finished"
    /\ LET c == CollectOutcome(tracks[u], units[u].fut)
       IN  IF c.raised
           THEN /\ pc' = "raised"
                /\ cause' = "collect"
                /\ UNCHANGED <<units, results>>
           ELSE /\ results' = results \o c.appended
                /\ units' = [units EXCEPT ![u].st = "collected"]
                /\ UNCHANGED <<pc, cause>>
    /\ UNCHANGED <<prior, call, autoDetect, stray, tracks, figures_dir, broken, success, total_revs,
                   summary, summaryWrites>>

\* mutant: the summary is written inside the as_completed loop
SummaryReady_InLoop == \E u \in DOMAIN units : units[u].st = "collected"

\* as_completed is exhausted: every future was yielded
SummaryReady == \A u \in DOMAIN units : units[u].st = "collected"

\* line 299
SuccessCount(rs) == Cardinality({i \in DOMAIN rs : rs[i].status = "success"})

\* mutant: the total counts the tracks that have reversals
TotalReversals_CountsTracks(rs) ==
    Cardinality({i \in DOMAIN rs : rs[i].reversals > 0})

\* line 300
TotalReversals(rs) == SumSeq([i \in DOMAIN rs |-> rs[i].reversals])

\* lines 298-305: the totals, then summary.json is opened for writing and
\* dumped; open or dump may raise
Summarize ==
    /\ pc = "collect"
    /\ SummaryReady
    /\ success' = SuccessCount(results)
    /\ total_revs' = TotalReversals(results)
    /\ \E ok \in BOOLEAN :
        IF ok
        THEN /\ summary' = [present |-> TRUE, tracks |-> results,
                            total_reversals |-> TotalReversals(results)]
             /\ summaryWrites' = summaryWrites + 1
             /\ pc' = "done"
             /\ cause' = cause
        ELSE /\ pc' = "raised"
             /\ cause' = "summary"
             /\ UNCHANGED <<summary, summaryWrites>>
    /\ UNCHANGED <<prior, call, autoDetect, stray, tracks, figures_dir, units, broken, results>>

Next ==
    \/ MakeFiguresDir
    \/ Discover
    \/ NoTracks
    \/ OpenPool
    \/ Submit
    \/ \E u \in DOMAIN units : Start(u)
    \/ \E u \in DOMAIN units : Finish(u)
    \/ \E u \in DOMAIN units : Crash(u)
    \/ \E u \in DOMAIN units : Collect(u)
    \/ Summarize

Spec == Init /\ [][Next]_vars

\* The orchestrator and the workers are OS processes that run to completion:
\* no unit is cancelled or timed out, so a step that stays possible is taken.
FairSpec == Spec /\ WF_vars(Next)

----------------------------------------------------------------------------
(* The renderers and the loader as functions of one record. Times are in   *)
(* milliseconds, indices are the integers int(rev.get(...)) yields.        *)

orchVars == <<autoDetect, stray, tracks, pc, cause, figures_dir, units, broken,
              results, success, total_revs, summary, summaryWrites, prior>>

\* the orchestrator is not running
OrchIdle ==
    /\ autoDetect = FALSE
    /\ stray = FALSE
    /\ tracks = <<>>
    /\ pc = "idle"
    /\ cause = "none"
    /\ figures_dir = TRUE
    /\ units = <<>>
    /\ broken = FALSE
    /\ results = <<>>
    /\ success = 0
    /\ total_revs = 0
    /\ summary = NoSummary
    /\ summaryWrites = 0
    /\ prior = NoSummary

Max(a, b) == IF a > b THEN a ELSE b

\* line 90: the 3.0 of duration >= 3.0, in milliseconds
MinDuration == 3000

\* rev.get(field, default)
Get(rev, field, default) == IF field \in DOMAIN rev THEN rev[field] ELSE default

\* where Python puts a slice bound i in a sequence of length n
SliceBound(i, n) == IF i < 0 THEN Max(i + n, 0) ELSE Min(i, n)

\* seq[a:b]
PySlice(seq, a, b) ==
    LET lo == SliceBound(a, Len(seq))
        hi == SliceBound(b, Len(seq))
    IN  IF lo < hi THEN SubSeq(seq, lo + 1, hi) ELSE <<>>

\* a reversal window as load_track_data returns it: start_idx and end_idx,
\* either of which may be missing
Windows(n) ==
    [start_idx : -1..(n + 1), end_idx : -1..(n + 1)]
        \cup [start_idx : -1..(n + 1)]
        \cup [end_idx : -1..(n + 1)]
        \cup {[other |-> 0]}

\* the reversal lists the renderers are called with: at most two windows
WindowLists(n) ==
    {<<>>} \cup {<<w>> : w \in Windows(n)}
           \cup {<<w, v>> : w \in Windows(n), v \in Windows(n)}

TimeVals == {0, 2999, 3000}

\* the elapsed_time series: any values, in any order
TimeSeqs == UNION {[1..n -> TimeVals] : n \in 0..MaxN}

\* mutant: duration > 3.0
Qualifies_Strict(times, rev) ==
    LET start_idx == Get(rev, "start_idx", 0)
        end_idx == Get(rev, "end_idx", Len(times))
        rev_times == PySlice(times, start_idx, end_idx)
    IN  /\ 0 <= start_idx /\ start_idx < Len(times)
        /\ 0 <= end_idx /\ end_idx <= Len(times)
        /\ Len(rev_times) > 0
        /\ rev_times[Len(rev_times)] - rev_times[1] > MinDuration

\* mutant: the bounds of the window are not tested
Qualifies_NoBounds(times, rev) ==
    LET start_idx == Get(rev, "start_idx", 0)
        end_idx == Get(rev, "end_idx", Len(times))
        rev_times == PySlice(times, start_idx, end_idx)
    IN  /\ Len(rev_times) > 0
        /\ rev_times[Len(rev_times)] - rev_times[1] >= MinDuration

\* lines 84-90: the window gets a row of the table
Qualifies(times, rev) ==
    LET start_idx == Get(rev, "start_idx", 0)
        end_idx == Get(rev, "end_idx", Len(times))
        rev_times == PySlice(times, start_idx, end_idx)
    IN  /\ 0 <= start_idx /\ start_idx < Len(times)
        /\ 0 <= end_idx /\ end_idx <= Len(times)
        /\ Len(rev_times) > 0
        /\ rev_times[Len(rev_times)] - rev_times[1] >= MinDuration

\* lines 91-94: the row of a window
TableRow(times, rev) ==
    LET start_idx == Get(rev, "start_idx", 0)
        end_idx == Get(rev, "end_idx", Len(times))
        rev_times == PySlice(times, start_idx, end_idx)
    IN  [start |-> rev_times[1], end |-> rev_times[Len(rev_times)],
         duration |-> rev_times[Len(rev_times)] - rev_times[1],
         start_idx |-> start_idx, end_idx |-> end_idx]

RECURSIVE reversal_table_data(_, _)
\* lines 82-94 of plot_dot_product: the rows of the event table
reversal_table_data(times, reversals) ==
    IF reversals = <<>> THEN <<>>
    ELSE (IF Qualifies(times, Head(reversals))
          THEN <<TableRow(times, Head(reversals))>>
          ELSE <<>>) \o reversal_table_data(times, Tail(reversals))

\* a call plot_dot_product(track_data, output_path)
DotCalls ==
    {[fn |-> "plot_dot_product", done |-> FALSE, times |-> t, reversals |-> r,
      table |-> <<>>] : t \in TimeSeqs, r \in WindowLists(MaxN)}

\* plot_dot_product runs
PlotDotProduct ==
    /\ call.fn = "plot_dot_product"
    /\ ~call.done
    /\ call' = [call EXCEPT !.done = TRUE,
                            !.table = reversal_table_data(call.times, call.reversals)]
    /\ UNCHANGED orchVars

\* int(0.1 * d): truncation towards zero
TenthOf(d) == IF d >= 0 THEN d \div 10 ELSE -((-d) \div 10)

\* mutant: the index test is len(reversals) < reversal_idx
CloseupSkips_OffByOne(n, reversal_idx) == n < reversal_idx

\* line 196: len(reversals) <= reversal_idx
CloseupSkips(n, reversal_idx) == n <= reversal_idx

\* plot_reversal_closeup(track_data, reversal_idx, output_path): whether it
\* raised, whether it saved an image, and the window and the view it drew.
\* reversals[reversal_idx] is Python indexing: a negative index counts from
\* the end and raises IndexError when it is below -len(reversals).
plot_reversal_closeup(times, reversals, reversal_idx) ==
    IF CloseupSkips(Len(reversals), reversal_idx)
    THEN [raised |-> FALSE, saved |-> FALSE]
    ELSE IF reversal_idx >= Len(reversals) \/ reversal_idx < -Len(reversals)
    THEN [raised |-> TRUE, saved |-> FALSE]
    ELSE LET rev == IF reversal_idx >= 0
                    THEN reversals[reversal_idx + 1]
                    ELSE reversals[reversal_idx + Len(reversals) + 1]
             start_idx == Get(rev, "start_idx", 0)
             end_idx == Get(rev, "end_idx", Len(times))
             padding == TenthOf(end_idx - start_idx)
             view_start == Max(0, start_idx - padding)
             view_end == Min(Len(times), end_idx + padding)
         IN  [raised |-> FALSE, saved |-> TRUE, rev |-> rev,
              view |-> PySlice(times, view_start, view_end),
              shaded |-> PySlice(times, start_idx, end_idx)]

\* the reversal indices plot_reversal_closeup is called with
IdxRange == -3..3

\* a call plot_reversal_closeup(track_data, reversal_idx, output_path)
CloseupCalls ==
    {[fn |-> "plot_reversal_closeup", done |-> FALSE, times |-> [i \in 1..n |-> 1000 * i],
      reversals |-> r, reversal_idx |-> x, ret |-> [raised |-> FALSE, saved |-> FALSE]] :
        n \in 0..MaxN, r \in WindowLists(MaxN), x \in IdxRange}

\* plot_reversal_closeup runs
PlotReversalCloseup ==
    /\ call.fn = "plot_reversal_closeup"
    /\ ~call.done
    /\ call' = [call EXCEPT !.done = TRUE,
                            !.ret = plot_reversal_closeup(call.times, call.reversals,
                                                          call.reversal_idx)]
    /\ UNCHANGED orchVars

\* a speed 10 * sqrt(rad) / dt is kept as the pair (rad, dt); 0 is (0, 1)
ZeroSpeed == [rad |-> 0, dt |-> 1]

IsPositive(sp) == sp.rad > 0 /\ sp.dt > 0

IsNegative(sp) == sp.rad > 0 /\ sp.dt < 0

\* mutant: the speed is computed whatever the sign of dt
SpeedOf_NoGuard(rad, dt) == [rad |-> rad, dt |-> dt]

\* line 156: np.sqrt(dx**2 + dy**2) / dt * 10 if dt > 0 else 0
SpeedOf(rad, dt) == IF dt > 0 THEN [rad |-> rad, dt |-> dt] ELSE ZeroSpeed

\* line 155: eti[i+1] - eti[i] if i+1 < len(eti) else 1, for the 0-based i
StepDt(eti, i) ==
    IF i + 1 < Len(eti)
    THEN IF (i + 2) \in DOMAIN eti /\ (i + 1) \in DOMAIN eti
         THEN [raised |-> FALSE, dt |-> eti[i + 2] - eti[i + 1]]
         ELSE [raised |-> TRUE, dt |-> 0]
    ELSE [raised |-> FALSE, dt |-> 1]

\* lines 152-156: the speeds of the segments 0..len(xpos)-2
ComputeSpeeds(xpos, ypos, eti) ==
    [raised |-> \E i \in 0..(Len(xpos) - 2) : StepDt(eti, i).raised,
     speeds |-> [k \in 1..(Len(xpos) - 1) |->
                    LET dx == xpos[k + 1] - xpos[k]
                        dy == ypos[k + 1] - ypos[k]
                    IN  SpeedOf(dx * dx + dy * dy, StepDt(eti, k - 1).dt)]]

\* lines 171-174: some window has start_idx <= i < end_idx
InReversal(reversals, i, m) ==
    \E k \in DOMAIN reversals :
        Get(reversals[k], "start_idx", 0) <= i /\ i < Get(reversals[k], "end_idx", m)

\* line 167: the segment is plotted
SegmentDrawn(speeds, i) == i < Len(speeds) /\ IsPositive(speeds[i + 1])

\* lines 166-175: the segments plotted, each with its colour
DrawnSegments(xpos, speeds, reversals) ==
    LET drawn == SelectSeq([k \in 1..(Len(xpos) - 1) |-> k - 1],
                           LAMBDA i : SegmentDrawn(speeds, i))
    IN  [k \in DOMAIN drawn |->
            [i |-> drawn[k],
             color |-> IF InReversal(reversals, drawn[k], Len(xpos))
                       THEN "uv_color" ELSE "speed_cmap"]]

\* plot_trajectory(track_data, output_path): the speeds and the segments
plot_trajectory(xpos, ypos, eti, reversals) ==
    LET c == ComputeSpeeds(xpos, ypos, eti)
    IN  IF c.raised
        THEN [raised |-> TRUE, speeds |-> <<>>, segments |-> <<>>]
        ELSE [raised |-> FALSE, speeds |-> c.speeds,
              segments |-> DrawnSegments(xpos, c.speeds, reversals)]

PosVals == {0, 1}

\* the reversal lists plot_trajectory is called with
TrajWindowLists(m) ==
    {<<>>} \cup {<<w>> : w \in Windows(m)}
           \cup {<<w, v>> : w \in [start_idx : {0, 1}, end_idx : {1, m}],
                            v \in [start_idx : {0, 1}, end_idx : {1, m}]}

\* a call plot_trajectory(track_data, output_path): ypos is flat or follows xpos
TrajectoryCalls ==
    {[fn |-> "plot_trajectory", done |-> FALSE, xpos |-> x,
      ypos |-> IF diag THEN x ELSE [i \in DOMAIN x |-> 0],
      eti |-> t, reversals |-> r,
      ret |-> [raised |-> FALSE, speeds |-> <<>>, segments |-> <<>>]] :
        x \in UNION {[1..m -> PosVals] : m \in 0..MaxM},
        diag \in BOOLEAN,
        t \in UNION {[1..l -> PosVals] : l \in 0..MaxM},
        r \in TrajWindowLists(MaxM)}

\* plot_trajectory runs
PlotTrajectory ==
    /\ call.fn = "plot_trajectory"
    /\ ~call.done
    /\ call' = [call EXCEPT !.done = TRUE,
                            !.ret = plot_trajectory(call.xpos, call.ypos, call.eti,
                                                    call.reversals)]
    /\ UNCHANGED orchVars

\* the digits after "reversal_" in the key names of the reversals group
KeyNames == {<<0, 3>>, <<1>>, <<1, 0>>, <<2>>}

\* int(x.replace('reversal_', '')): the decimal value of the digits
RECURSIVE ParseInt(_)
ParseInt(d) ==
    IF d = <<>> THEN 0
    ELSE 10 * ParseInt(SubSeq(d, 1, Len(d) - 1)) + d[Len(d)]

\* string order of two key names: by the first character that differs, a
\* proper prefix first
TextLess(a, b) ==
    \/ \E i \in DOMAIN a \cap DOMAIN b :
            /\ a[i] < b[i]
            /\ \A j \in 1..(i - 1) : a[j] = b[j]
    \/ /\ Len(a) < Len(b)
       /\ \A j \in DOMAIN a : a[j] = b[j]

\* rev_group.keys(): the names of the group, which HDF5 iterates by name
RECURSIVE GroupKeys(_)
GroupKeys(K) ==
    IF K = {} THEN <<>>
    ELSE LET first == CHOOSE k \in K : \A j \in K \ {k} : TextLess(k, j)
         IN  <<first>> \o GroupKeys(K \ {first})

\* mutant: the keys are taken in the order the group yields them
SortedKeys_AsListed(keys) == keys

\* sorted(keys, key=int(...)): ascending by number, stable
RECURSIVE SortedKeys(_)
SortedKeys(keys) ==
    IF keys = <<>> THEN <<>>
    ELSE LET m == CHOOSE i \in DOMAIN keys :
                    /\ \A j \in DOMAIN keys : ParseInt(keys[i]) <= ParseInt(keys[j])
                    /\ \A j \in 1..(i - 1) : ParseInt(keys[j]) > ParseInt(keys[i])
         IN  <<keys[m]>> \o SortedKeys(SubSeq(keys, 1, m - 1)
                                        \o SubSeq(keys, m + 1, Len(keys)))

\* line 52: float(np.asarray(val).flat[0]) if iterable, else float(val)
Coerce(val) == IF val.iter THEN val.flat[1] ELSE val.v

\* lines 49-52: the attributes of one sub-record as plain scalars
RevDict(attrs) == [field \in DOMAIN attrs |-> Coerce(attrs[field])]

\* lines 44-55: the reversals list of the loaded record
load_reversals(rev_group) ==
    LET keys == SortedKeys(GroupKeys(DOMAIN rev_group))
    IN  [k \in DOMAIN keys |-> RevDict(rev_group[keys[k]])]

\* lines 238-239: close-up n is plot_reversal_closeup(data, n - 1, ...)
CloseupImages(times, reversals) ==
    [n \in 1..Len(reversals) |-> plot_reversal_closeup(times, reversals, n - 1)]

\* an attribute as HDF5 stores it: a scalar or an array
RawValues ==
    {[iter |-> FALSE, v |-> x] : x \in {0, 5}}
        \cup {[iter |-> TRUE, flat |-> <<x>>] : x \in {0, 5}}

\* a track file's reversals group, loaded and then rendered
LoadCalls ==
    {[fn |-> "load_track_data", stage |-> "file", rev_group |-> g,
      reversals |-> <<>>, images |-> <<>>] :
        g \in UNION {[K -> [start_time : RawValues]] : K \in SUBSET KeyNames}}

\* load_track_data builds the reversals list
LoadReversals ==
    /\ call.fn = "load_track_data"
    /\ call.stage = "file"
    /\ call' = [call EXCEPT !.stage = "loaded",
                            !.reversals = load_reversals(call.rev_group)]
    /\ UNCHANGED orchVars

\* process_single_track renders one close-up per loaded reversal
RenderCloseups ==
    /\ call.fn = "load_track_data"
    /\ call.stage = "loaded"
    /\ call' = [call EXCEPT !.stage = "rendered",
                            !.images = CloseupImages(<<>>, call.reversals)]
    /\ UNCHANGED orchVars

RenderInit ==
    /\ OrchIdle
    /\ \/ call \in DotCalls
       \/ call \in CloseupCalls
       \/ call \in TrajectoryCalls
       \/ call \in LoadCalls

RenderNext ==
    \/ PlotDotProduct
    \/ PlotReversalCloseup
    \/ PlotTrajectory
    \/ LoadReversals
    \/ RenderCloseups

RenderSpec == RenderInit /\ [][RenderNext]_vars

----------------------------------------------------------------------------
(* Properties *)

Statuses == {"success", "not_found", "error", "exception"}

Dispatched(u) == u \in DOMAIN units /\ units[u].st # "unsubmitted"

Yielded(u) == u \in DOMAIN units /\ units[u].st \in {"finished", "collected"}

\* the as_completed loop has ended
CollectionEnded ==
    units # <<>> /\ \A u \in DOMAIN units : units[u].st = "collected"

OutcomesFor(t) == Cardinality({i \in DOMAIN results : results[i].track_num = t})

UnitsFor(t) == Cardinality({u \in DOMAIN tracks : tracks[u] = t})

OneOutcomePerUnit ==
    /\ DOMAIN units = DOMAIN tracks
    /\ Len(results) = Len(tracks)
    /\ \A t \in TrackIds : OutcomesFor(t) = UnitsFor(t)
    /\ \A i \in DOMAIN results : results[i].status \in Statuses

OwnOutcomes(t) ==
    IF Fault(t) = "crash"
    THEN {ExceptionOutcome(t)}
    ELSE {process_single_track(t, f).value : f \in FailChoices(t)}

\* C2 (as claimed): a crash or exception in one unit changes no other unit's
\* outcome: every recorded outcome of a track whose own unit does not crash is
\* the outcome process_single_track yields for that track.
C2_FaultIsolation ==
    \A i \in DOMAIN results :
        Fault(results[i].track_num) # "crash"
            => results[i] \in OwnOutcomes(results[i].track_num)

\* C3 (as claimed): every invocation that returns has written summary.json
\* exactly once.
C3_SummaryWrittenOnceAlways == pc = "done" => summaryWrites = 1

\* mutant: every unit writes straight into figures_dir
PathOf_Flat(t, step) ==
    CASE step[1] = "dot_product" -> [sub |-> 0, name |-> "dot_product.png", idx |-> 0]
      [] step[1] = "trajectory"  -> [sub |-> 0, name |-> "trajectory.png", idx |-> 0]
      [] step[1] = "closeup"     -> [sub |-> 0, name |-> "reversal_dot_product.png",
                                     idx |-> step[2]]
      [] OTHER                   -> [sub |-> 0, name |-> "", idx |-> 0]

\* the file a completed step of a unit for track t writes: sub is the
\* track<N> subdirectory of figures_dir (0: figures_dir itself)
PathOf(t, step) ==
    CASE step[1] = "dot_product" -> [sub |-> t, name |-> "dot_product.png", idx |-> 0]
      [] step[1] = "trajectory"  -> [sub |-> t, name |-> "trajectory.png", idx |-> 0]
      [] step[1] = "closeup"     -> [sub |-> t, name |-> "reversal_dot_product.png",
                                     idx |-> step[2]]
      [] OTHER                   -> [sub |-> t, name |-> "", idx |-> 0]

\* line 304: figures_dir / 'summary.json'
SummaryPath == [sub |-> 0, name |-> "summary.json", idx |-> 0]

UnitWrites(u) == {PathOf(tracks[u], units[u].completed[k]) : k \in DOMAIN units[u].completed}

\* C3 (amended): summary.json is never written more than once; it is written
\* only by the orchestrator and only after every dispatched unit has yielded
\* its outcome and been collected; an invocation with at least one track that
\* returns has written it exactly once, one with no tracks has not written it.
C3_SummaryWrittenOnce ==
    /\ summaryWrites <= 1
    /\ summaryWrites = 0 => summary = prior
    /\ summaryWrites = 1 => CollectionEnded /\ OneOutcomePerUnit
    /\ \A u \in DOMAIN units : SummaryPath \notin UnitWrites(u)
    /\ pc = "done" /\ tracks # <<>> => summaryWrites = 1
    /\ pc = "done" /\ tracks = <<>> => summaryWrites = 0

\* C3 witness: a run of several units has returned with the summary written
C3_Witness ==
    /\ pc = "done"
    /\ summaryWrites = 1
    /\ Len(tracks) >= 2
    /\ \E u \in DOMAIN units : UnitWrites(u) # {}

\* the totals of the tracks' own outcomes: they do not depend on any order
OwnReversals(t) == (CHOOSE o \in OwnOutcomes(t) : TRUE).reversals

OwnSuccess(t) == IF (CHOOSE o \in OwnOutcomes(t) : TRUE).status = "success" THEN 1 ELSE 0

\* C4 (as claimed): whatever the submission order and the completion order,
\* total_reversals and success_count are the totals of the tracks' own
\* outcomes.
C4_TotalsOrderInvariant ==
    pc = "done" /\ tracks # <<>> =>
        /\ total_revs = SumSeq([u \in DOMAIN tracks |-> OwnReversals(tracks[u])])
        /\ success = SumSeq([u \in DOMAIN tracks |-> OwnSuccess(tracks[u])])

\* C5: at most min(4, len(tracks)) units execute at the same time, and a
\* queued unit waits while that many are executing.
C5_PoolBounded ==
    /\ Cardinality(Running) <= Min(PoolCap, Len(tracks))
    /\ Cardinality(Running) >= Min(PoolCap, Len(tracks))
           => \A u \in DOMAIN units : ~CanStart(u)

\* C5 witness: four units execute and a fifth waits
C5_Witness == Cardinality(Running) = PoolCap /\ Queued # {}

\* C6: a unit that returns for a track without directory returns not_found
\* with 0 reversals, has not invoked the loader and has created nothing.
C6_MissingDirNotFound ==
    \A u \in DOMAIN units :
        ~DirExists(tracks[u]) /\ Yielded(u) /\ units[u].fut.kind # "exception" =>
            /\ units[u].fut.kind = "result"
            /\ units[u].fut.value = [track_num |-> tracks[u], status |-> "not_found",
                                     reversals |-> 0]
            /\ units[u].invoked = <<>>
            /\ units[u].completed = <<>>

\* C6 witness: the unit of a track without directory has returned
C6_Witness ==
    \E u \in DOMAIN units :
        ~DirExists(tracks[u]) /\ units[u].fut.kind = "result"

\* C7 (as claimed): a unit that returns for a track whose directory has no
\* track_data.h5 returns not_found with 0 reversals.
C7_MissingDataNotFound ==
    \A u \in DOMAIN units :
        DirExists(tracks[u]) /\ ~H5Exists(tracks[u]) /\ units[u].fut.kind = "result" =>
            /\ units[u].fut.value.status = "not_found"
            /\ units[u].fut.value.reversals = 0

\* a step of the unit raised: it was invoked and did not complete, in a worker
\* that did not die
StepRaised(u) ==
    /\ Yielded(u)
    /\ Fault(tracks[u]) # "crash"
    /\ Len(units[u].invoked) > Len(units[u].completed)

RaisedStep(u) == units[u].invoked[Len(units[u].invoked)]

\* C8: when a step of a unit raises (the loader, mkdir or a renderer), the unit
\* returns status error with the exception's message and 0 reversals; nothing
\* is raised out of process_single_track.
C8_UnitExceptionCaptured ==
    \A u \in DOMAIN units :
        StepRaised(u) =>
            /\ units[u].fut.kind = "result"
            /\ units[u].fut.value.track_num = tracks[u]
            /\ units[u].fut.value.status = "error"
            /\ units[u].fut.value.reversals = 0
            /\ units[u].fut.value.error =
                   IF H5Exists(tracks[u]) THEN ExcMessage(RaisedStep(u))
                   ELSE "No track_data.h5 found"

\* C8 witness: a close-up renderer raised after the main figures were written
C8_Witness ==
    \E u \in DOMAIN units :
        StepRaised(u) /\ RaisedStep(u)[1] = "closeup" /\ Len(units[u].completed) = 4

\* C9: collecting a future that holds an exception appends the outcome
\* (track, exception, 0) and nothing else, and the orchestrator stays in the
\* collection loop.
C9_PoolFailureRecorded ==
    [][\A u \in DOMAIN units :
          (/\ pc = "collect"
           /\ units[u].st = "finished"
           /\ units[u].fut.kind = "exception"
           /\ pc' # pc \/ units'[u].st # "finished")
          => /\ units'[u].st = "collected"
             /\ results' = Append(results, [track_num |-> tracks[u],
                                            status |-> "exception", reversals |-> 0])
             /\ pc' = "collect"]_vars

\* C9 witness: an exception outcome was recorded and another unit was
\* collected after it
C9_Witness ==
    \E i \in DOMAIN results :
        results[i].status = "exception" /\ i < Len(results)

\* C10 (as claimed): generate_all_figures raises only when the output
\* location cannot be created or summary.json cannot be written.
C10_RunFailsOnlyOnOutput == pc = "raised" => cause \in {"mkdir", "summary"}

\* the steps of a unit for track t that can complete
CanComplete(t) ==
    IF Fault(t) = "crash"
    THEN Range(AllSteps(t))
    ELSE UNION {Range(process_single_track(t, f).completed) : f \in FailChoices(t)}

\* the paths a unit creates or writes while it runs
TargetPaths(u) == {PathOf(tracks[u], s) : s \in CanComplete(tracks[u]) \ {LoadStep}}

NoRepeats(list) == \A i, j \in DOMAIN list : i # j => list[i] # list[j]

OwnSubtreeOnly ==
    /\ \A u, v \in Running : u # v => TargetPaths(u) \cap TargetPaths(v) = {}
    /\ \A u \in DOMAIN units : \A p \in UnitWrites(u) \cup TargetPaths(u) : p.sub = tracks[u]

\* C11 (as claimed): for every track list, no two units that run at the same
\* time write the same output path, and a unit writes only under its own
\* track<N> subdirectory.
C11_ExclusiveSubtree == OwnSubtreeOnly

\* C11 (amended): for every track list without a repeated identifier, no two
\* units that run at the same time write the same output path, and a unit
\* writes only under its own track<N> subdirectory.
C11_ExclusiveSubtreeNoRepeats == NoRepeats(tracks) => OwnSubtreeOnly

\* C11 witness: two units for different tracks run at the same time and both
\* write figures
C11_Witness ==
    \E u, v \in Running :
        /\ tracks[u] # tracks[v]
        /\ Cardinality(TargetPaths(u)) > 1
        /\ Cardinality(TargetPaths(v)) > 1

\* C12: the summary written holds the collected outcome sequence in collection
\* order and total_reversals, the sum of reversals over all of its outcomes
\* whatever their status; it replaces the summary that was there before.
C12_SummaryContent ==
    summaryWrites = 1 =>
        /\ summary.present
        /\ summary.tracks = results
        /\ Len(summary.tracks) = Len(tracks)
        /\ summary.total_reversals =
               SumSeq([i \in DOMAIN summary.tracks |-> summary.tracks[i].reversals])
        /\ summary # prior

\* C12 witness: a summary of outcomes of several statuses has replaced a
\* stale one
C12_Witness ==
    /\ pc = "done"
    /\ prior = StaleSummary
    /\ summary.total_reversals = 2
    /\ \E i \in DOMAIN summary.tracks : summary.tracks[i].status # "success"

IsImageStep(step) == step[1] \in {"dot_product", "trajectory", "closeup"}

\* the image files a unit has written, in the order it wrote them
FilesWritten(u) ==
    LET imgs == SelectSeq(units[u].completed, IsImageStep)
    IN  [k \in DOMAIN imgs |-> PathOf(tracks[u], imgs[k])]

\* dot_product.png, trajectory.png, then the close-ups 1..k of track t
AllFigures(t, k) ==
    <<[sub |-> t, name |-> "dot_product.png", idx |-> 0],
      [sub |-> t, name |-> "trajectory.png", idx |-> 0]>>
        \o [r \in 1..k |-> [sub |-> t, name |-> "reversal_dot_product.png", idx |-> r]]

\* C19: a unit that returns success reports the number of all reversal windows
\* of the record and has written dot_product.png, trajectory.png and the
\* close-ups 1..k, in this order; a unit that returns error reports 0 and has
\* written a proper prefix of them.
C19_SuccessMeansAllFigures ==
    \A u \in DOMAIN units :
        units[u].fut.kind = "result" =>
            LET o == units[u].fut.value
                n == Len(Reversals(tracks[u]))
            IN  /\ o.status = "success" =>
                    /\ o.reversals = n
                    /\ FilesWritten(u) = AllFigures(tracks[u], n)
                /\ o.status = "error" =>
                    /\ o.reversals = 0
                    /\ Len(FilesWritten(u)) < n + 2
                    /\ FilesWritten(u) =
                           SubSeq(AllFigures(tracks[u], n), 1, Len(FilesWritten(u)))

\* C19 witness: one unit returned success with two close-ups, another returned
\* error after it had written figures
C19_Witness ==
    \E u, v \in DOMAIN units :
        /\ units[u].fut.kind = "result"
        /\ units[u].fut.value.status = "success"
        /\ units[u].fut.value.reversals = 2
        /\ units[v].fut.kind = "result"
        /\ units[v].fut.value.status = "error"
        /\ Len(FilesWritten(v)) = 2

\* the window's bounds as plot_dot_product reads them
WStart(w) == Get(w, "start_idx", 0)

WEnd(w, n) == Get(w, "end_idx", n)

ValidBounds(s, e, n) == 0 <= s /\ s <= e /\ e <= n

InTable(s, e) ==
    \E k \in DOMAIN call.table : call.table[k].start_idx = s /\ call.table[k].end_idx = e

NonDecreasing(seq) == \A i, j \in DOMAIN seq : i <= j => seq[i] <= seq[j]

\* C13: a window with valid bounds has a row in the event table exactly when
\* elapsed_time[end_idx-1] - elapsed_time[start_idx] >= 3.0: a non-empty
\* window for any series, and for a non-decreasing series every window whose
\* two samples exist; a span of 2.999 is out, a span of 3.000 is in.
C13_ThresholdExact ==
    call.fn = "plot_dot_product" /\ call.done =>
        \A k \in DOMAIN call.reversals :
            LET n == Len(call.times)
                s == WStart(call.reversals[k])
                e == WEnd(call.reversals[k], n)
            IN  ValidBounds(s, e, n) =>
                    /\ s < e =>
                        (InTable(s, e) <=> call.times[e] - call.times[s + 1] >= 3000)
                    /\ s = e /\ NonDecreasing(call.times) /\ 1 <= e /\ s < n =>
                        (InTable(s, e) <=> call.times[e] - call.times[s + 1] >= 3000)
                    /\ s = e => ~InTable(s, e)

\* C13 witness: of two windows the one that spans 3.000 s has a row, the
\* shorter one has none
C13_Witness ==
    /\ call.fn = "plot_dot_product" /\ call.done
    /\ call.times = <<0, 3000>>
    /\ call.reversals = <<[start_idx |-> 0, end_idx |-> 2], [start_idx |-> 0, end_idx |-> 1]>>
    /\ Len(call.table) = 1

\* C14: no row of the event table belongs to a window with start_idx = end_idx
\* or with start_idx < 0, start_idx > end_idx or end_idx > N.
C14_NoDegenerateRow ==
    call.fn = "plot_dot_product" /\ call.done =>
        \A k \in DOMAIN call.reversals :
            LET n == Len(call.times)
                s == WStart(call.reversals[k])
                e == WEnd(call.reversals[k], n)
            IN  s = e \/ s < 0 \/ s > e \/ e > n => ~InTable(s, e)

\* C14 witness: a window that ends after the series, beside one that has a row
C14_Witness ==
    /\ call.fn = "plot_dot_product" /\ call.done
    /\ call.times = <<0, 3000>>
    /\ call.reversals = <<[start_idx |-> 0, end_idx |-> 3], [start_idx |-> 0]>>
    /\ Len(call.table) = 1

\* C15 (as claimed): for every reversal index that addresses no reversal of
\* the record, plot_reversal_closeup saves nothing and raises nothing.
C15_OutOfRangeNoOp ==
    call.fn = "plot_reversal_closeup" /\ call.done =>
        ((call.reversal_idx >= Len(call.reversals)
            \/ call.reversal_idx < -Len(call.reversals))
            => ~call.ret.saved /\ ~call.ret.raised)

\* C15 (amended): for every reversal index >= the number of reversals,
\* plot_reversal_closeup saves nothing and raises nothing.
C15_AtOrPastEndNoOp ==
    call.fn = "plot_reversal_closeup" /\ call.done =>
        (call.reversal_idx >= Len(call.reversals)
            => ~call.ret.saved /\ ~call.ret.raised)

\* C15 witness: the index just past the last of two reversals
C15_Witness ==
    /\ call.fn = "plot_reversal_closeup" /\ call.done
    /\ Len(call.reversals) = 2
    /\ call.reversal_idx = 2
    /\ ~call.ret.saved

SegmentOf(i) == {k \in DOMAIN call.ret.segments : call.ret.segments[k].i = i}

\* C16 (as claimed): every segment 0..M-2 is drawn once, and a segment inside
\* some reversal window is drawn in the reversal colour, whatever its speed.
C16_EverySegmentDrawn ==
    call.fn = "plot_trajectory" /\ call.done /\ ~call.ret.raised =>
        \A i \in 0..(Len(call.xpos) - 2) :
            /\ Cardinality(SegmentOf(i)) = 1
            /\ (\E k \in DOMAIN call.reversals :
                    /\ Get(call.reversals[k], "start_idx", 0) <= i
                    /\ i < Get(call.reversals[k], "end_idx", Len(call.xpos)))
                => \A k \in SegmentOf(i) : call.ret.segments[k].color = "uv_color"

\* C18: for a position series of length M >= 1 and a sample_time series of any
\* length, there are M-1 speeds, none negative, 0 where dt <= 0, and no index
\* error.
C18_SpeedsWellFormed ==
    call.fn = "plot_trajectory" /\ call.done /\ Len(call.xpos) >= 1 =>
        /\ ~call.ret.raised
        /\ Len(call.ret.speeds) = Len(call.xpos) - 1
        /\ \A k \in DOMAIN call.ret.speeds :
            /\ ~IsNegative(call.ret.speeds[k])
            /\ call.ret.speeds[k].dt # 0
            /\ (k + 1 \in DOMAIN call.eti /\ call.eti[k + 1] - call.eti[k] <= 0)
                   => call.ret.speeds[k] = [rad |-> 0, dt |-> 1]

\* C18 witness: three positions, a sample_time series of two with dt < 0 on
\* the first segment, and a moving second segment without sample times
C18_Witness ==
    /\ call.fn = "plot_trajectory" /\ call.done
    /\ call.xpos = <<0, 1, 0>>
    /\ call.eti = <<1, 0>>
    /\ call.ret.speeds = <<[rad |-> 0, dt |-> 1], [rad |-> 1, dt |-> 1]>>

\* the key whose number is the n-th smallest of the group
NthKey(g, n) ==
    CHOOSE k \in DOMAIN g :
        Cardinality({j \in DOMAIN g : ParseInt(j) < ParseInt(k)}) = n - 1

\* the scalar a stored attribute stands for
Scalar(val) == IF val.iter THEN val.flat[1] ELSE val.v

\* C17: the loaded reversals are in ascending order of the integer in their
\* key (reversal_10 after reversal_2) whatever their start times, and
\* close-up image n depicts the n-th reversal in that order.
C17_KeyOrderKept ==
    call.fn = "load_track_data" /\ call.stage # "file" =>
        /\ Len(call.reversals) = Cardinality(DOMAIN call.rev_group)
        /\ \A n \in DOMAIN call.reversals :
            call.reversals[n].start_time
                = Scalar(call.rev_group[NthKey(call.rev_group, n)].start_time)
        /\ call.stage = "rendered" =>
            /\ DOMAIN call.images = DOMAIN call.reversals
            /\ \A n \in DOMAIN call.images :
                /\ call.images[n].saved
                /\ call.images[n].rev.start_time
                    = Scalar(call.rev_group[NthKey(call.rev_group, n)].start_time)

\* C17 witness: reversal_10 starts before reversal_2 and is image 2
C17_Witness ==
    /\ call.fn = "load_track_data" /\ call.stage = "rendered"
    /\ DOMAIN call.rev_group = {<<1, 0>>, <<2>>}
    /\ call.rev_group[<<1, 0>>].start_time = [iter |-> TRUE, flat |-> <<0>>]
    /\ call.rev_group[<<2>>].start_time = [iter |-> FALSE, v |-> 5]
    /\ call.images[2].rev.start_time = 0

====
